---- MODULE Spec2Model ----
(***************************************************************************)
(* Model of the notebook-driven pipeline engine (backend/tasks/            *)
(* celery_tasks.py), the deployment records it shares with the rollback    *)
(* endpoint (backend/routers/models.py) and the model server's registry    *)
(* (model-server/server.py).                                               *)
(*                                                                         *)
(* Abstractions: accuracies are percentages (0.70 is 70); timestamps are   *)
(* logical (each write of started_at / finished_at stores a strictly later *)
(* value than the one stored before); a phase entry keeps name, status and *)
(* logs, its ISO timestamp is dropped; a log text or exception message is a *)
(* sequence of short strings (<<>> is the empty string).                   *)
(***************************************************************************)
EXTENDS Naturals, Integers, Sequences, FiniteSets, TLC

(* ------------------------------ bounds --------------------------------- *)
\* how many times the queue may deliver one task (acks_late: at-least-once)
MaxDeliveries == 2
\* how many collaborator failures (Redis, SQL store, model server, tracker,
\* GitHub, papermill) the environment injects in one behaviour
MaxFaults == 1
\* how many predictions one loaded entry answers
MaxRequests == 2
\* how many cells a notebook handed to the parser has, and how many lines the
\* source of a config cell
MaxCells == 2
MaxLines == 2
\* registered repositories in the table
MaxRepos == 1
\* rows in the deployments table before the run
MaxRows == 2

(* ----------------------- program constants ----------------------------- *)
MinAccuracyThreshold == 70

REQUIRED_TAGS == <<"mlops:config", "mlops:preprocessing", "mlops:training", "mlops:export">>

PipelineIds == {"p1", "p2"}
ModelNames == {"m1", "m2"}
Accuracies == {50, 70, 95}

(* --------------------------- small helpers ----------------------------- *)
Range(s) == {s[i] : i \in 1..Len(s)}

None == {}
Some(v) == {v}
TheValue(o) == CHOOSE v \in o : TRUE

\* dict.get(key, default) on an optional field
Get(o, default) == IF o = None THEN default ELSE TheValue(o)

EmptyMetrics == [accuracy |-> None, deployed |-> None]

Entry(name, status, logs) == [name |-> name, status |-> status, logs |-> logs]
Event(phase, status, logs) == [phase |-> phase, status |-> status, logs |-> logs]

(* ------------------------ notebook contract ---------------------------- *)
\* An identifier is the sequence of its words (MODEL_VERSION is
\* <<"MODEL", "VERSION">>); the text of a string literal is the sequence of
\* its pieces, a piece being a quote character or a run of other characters
\* ("it's" is <<"it", "'", "s">>); a source line is an assignment of a quoted
\* literal or of an unquoted expression to an identifier.
MODEL_NAME == <<"MODEL", "NAME">>
VERSION == <<"VERSION">>
QuoteChars == {"'", "\""}

Assign(lhs, quoted, text) == [lhs |-> lhs, quoted |-> quoted, text |-> text]

\* a notebook is a sequence of cells; a cell carries a set of tags and the
\* lines of its source
Cell(tags, source) == [tags |-> tags, source |-> source]

\* a notebook with the four tagged cells whose config cell declares the model
\* name m and, when v is given, the version
NbGood(m, v) ==
    << Cell({"mlops:config"},
            <<Assign(MODEL_NAME, TRUE, <<m>>)>> \o
            (IF v = None THEN <<>> ELSE <<Assign(VERSION, TRUE, <<TheValue(v)>>)>>)),
       Cell({"mlops:preprocessing"}, <<>>),
       Cell({"mlops:training"}, <<>>),
       Cell({"mlops:export"}, <<>>) >>

NbNoTraining ==
    << Cell({"mlops:config"},
            <<Assign(MODEL_NAME, TRUE, <<"m1">>), Assign(VERSION, TRUE, <<"1">>)>>),
       Cell({"mlops:preprocessing"}, <<>>),
       Cell({"mlops:export"}, <<>>) >>

\* what the repository of a pipeline can hold at its branch when it is fetched
Notebooks(id) ==
    IF id = "p1" THEN {NbGood("m1", None), NbNoTraining}
    ELSE {NbGood("m1", Some("2")), NbGood("m2", None)}

_cell_tags(cell) == cell.tags

get_cells_by_tag(notebook, tag) ==
    SelectSeq(notebook, LAMBDA cell : tag \in _cell_tags(cell))

\* a validation that reports the first missing tag only
missing_tags_First(notebook) ==
    LET all == SelectSeq(REQUIRED_TAGS,
                         LAMBDA tag : \A i \in 1..Len(notebook) : tag \notin notebook[i].tags)
    IN  IF all = <<>> THEN <<>> ELSE <<all[1]>>

\* the list `missing` built by validate_required_tags, in REQUIRED_TAGS order
missing_tags(notebook) ==
    SelectSeq(REQUIRED_TAGS, LAMBDA tag : get_cells_by_tag(notebook, tag) = <<>>)

\* the text of identifier `key` ends the text of identifier `lhs`
EndsWith(lhs, key) ==
    /\ Len(key) <= Len(lhs)
    /\ SubSeq(lhs, Len(lhs) - Len(key) + 1, Len(lhs)) = key

\* the pattern  key\s*=\s*['"]([^'"]+)['"]  matches at this line: the text
\* before the = ends with key, a quote follows the =, and at least one
\* character that is no quote follows that quote
Matches(line, key) ==
    /\ EndsWith(line.lhs, key)
    /\ line.quoted
    /\ line.text # <<>>
    /\ line.text[1] \notin QuoteChars

\* re.search(pattern, source): group(1) of the first match, or the default
Search(source, key, default) ==
    LET hits == SelectSeq(source, LAMBDA line : Matches(line, key))
    IN  IF hits = <<>> THEN default ELSE hits[1].text[1]

extract_config(notebook) ==
    LET cells == get_cells_by_tag(notebook, "mlops:config")
        source == cells[1].source
    IN  [model_name |-> Search(source, MODEL_NAME, "default-model"),
         version    |-> Search(source, VERSION, "1")]

(* ------------------------------- state --------------------------------- *)
VARIABLES
    settings,           \* AppSettings: auto_deploy_on_success, min_accuracy_threshold
    pipelines,          \* table `pipelines`: id -> record (the state store)
    model_deployments,  \* table `model_deployments`: sequence of rows, id = index
    channel,            \* pipeline:{id}:logs, every message published so far
    phases_list,        \* the Redis list pipeline:{id}:phases
    _models,            \* model-server registry: model_name -> _ModelEntry
    _shutting_down,     \* the worker's shutdown flag
    task,               \* per pipeline id: the executing run_pipeline frame
    deliveries,         \* per pipeline id: how often its task was delivered
    fault_count,        \* collaborator failures injected so far
    limits,             \* what the environment may do: deliveries per task, failures
    revoked,            \* the task ids the runner's cancel revoked
    reply,              \* model server: the answer to the latest request
    last_load,          \* model server: per name, the latest load call that succeeded
    served,             \* model server: per name, predicts answered 200 since that load
    nb_input,           \* notebook parser: the notebook handed to it
    nb_result,          \* notebook parser: what the latest call returned or raised
    repositories,       \* table `repositories`: sequence of rows, id = index
    enqueued,           \* per task id: the messages apply_async sent to the queue
    api_reply,          \* backend API: the answer to the latest request
    rollbacks,          \* backend API: the rollback_model calls in progress
    subscriptions,      \* Redis pub/sub: per subscribed connection, channel and buffer
    ws,                 \* per websocket connection: the ws_pipeline_logs frame
    clients             \* per websocket connection: the client's end of it

vars == <<settings, pipelines, model_deployments, channel, phases_list, _models,
          _shutting_down, task, deliveries, fault_count, limits, revoked, reply,
          last_load, served, nb_input, nb_result, repositories, enqueued, api_reply,
          rollbacks, subscriptions, ws, clients>>

\* what the requests to the model server leave behind
serverObs == <<reply, last_load, served>>
\* the state of the notebook parser's caller
parserVars == <<nb_input, nb_result>>
\* the state of the trigger gateway
gatewayVars == <<repositories, enqueued>>
\* the state of the backend's request handlers
apiVars == <<api_reply, rollbacks>>
\* the websocket connections and what they subscribed to
streamVars == <<subscriptions, ws, clients>>
\* everything the backend's routers own
routerVars == <<gatewayVars, apiVars, streamVars>>

RunRef(kind, id, n) == [kind |-> kind, id |-> id, n |-> n]
NoRef == RunRef("none", "", 0)

\* the frame of run_pipeline before its first statement
NewTask ==
    [pc |-> "start", cur |-> Entry("", "", <<>>), phases |-> <<>>,
     metrics |-> EmptyMetrics, notebook |-> <<>>, model_name |-> "",
     model_version |-> "", accuracy |-> 0, mlflow_run_id |-> NoRef,
     deploy_resp |-> "none", deployed |-> FALSE, prev |-> {}, exc |-> <<>>,
     result |-> "none"]

Idle == [NewTask EXCEPT !.pc = "idle"]

\* models/schemas.py Pipeline: the row webhook.py lines 135-139 build
Pipeline(repo_id, commit_sha) ==
    [repo_id |-> repo_id, commit_sha |-> commit_sha, status |-> "queued",
     phases |-> <<>>, metrics |-> EmptyMetrics, started_at |-> 0, finished_at |-> 0]

NewPipeline == Pipeline(1, "c1")

(* --------------------------- collaborators ----------------------------- *)
\* the outcomes a call to a collaborator can have: "ok" or one of `failures`
Outcomes(failures) ==
    IF fault_count < limits.faults THEN {"ok"} \cup failures ELSE {"ok"}
Charge(o) == IF o = "ok" THEN fault_count ELSE fault_count + 1

\* an update with no WHERE clause: every row of the table is written
_update_pipeline_db_AllRows(db, id, status, phases, metrics, started_at, finished_at) ==
    [k \in DOMAIN db |->
        [repo_id     |-> db[k].repo_id,
         commit_sha  |-> db[k].commit_sha,
         status      |-> Get(status, db[k].status),
         phases      |-> Get(phases, db[k].phases),
         metrics     |-> Get(metrics, db[k].metrics),
         started_at  |-> IF started_at THEN db[k].started_at + 1 ELSE db[k].started_at,
         finished_at |-> IF finished_at THEN db[k].finished_at + 1
                         ELSE db[k].finished_at]]

_update_pipeline_db(db, id, status, phases, metrics, started_at, finished_at) ==
    IF id \notin DOMAIN db THEN db
    ELSE [db EXCEPT ![id] =
            [repo_id     |-> @.repo_id,
             commit_sha  |-> @.commit_sha,
             status      |-> Get(status, @.status),
             phases      |-> Get(phases, @.phases),
             metrics     |-> Get(metrics, @.metrics),
             started_at  |-> IF started_at THEN @.started_at + 1 ELSE @.started_at,
             finished_at |-> IF finished_at THEN @.finished_at + 1 ELSE @.finished_at]]

\* the object joblib.load returns for the artifact downloaded from a run
Artifact(mlflow_run_id) == [artifact_of |-> mlflow_run_id]

ModelEntry(model, version, mlflow_run_id) ==
    [model |-> model, version |-> version, mlflow_run_id |-> mlflow_run_id,
     request_count |-> 0]

\* d[key] = value on a dict
Assigned(d, key, value) ==
    [k \in DOMAIN d \cup {key} |-> IF k = key THEN value ELSE d[k]]

\* a torn replacement: the new predictor under the version already there
load_model_Torn(reg, model_name, mlflow_run_id, version) ==
    Assigned(reg, model_name,
             ModelEntry(Artifact(mlflow_run_id),
                        IF model_name \in DOMAIN reg THEN reg[model_name].version
                        ELSE version,
                        mlflow_run_id))

\* load_model on the model server: the registry after a successful load
\* (the single assignment of lines 250-255)
load_model(reg, model_name, mlflow_run_id, version) ==
    Assigned(reg, model_name,
             ModelEntry(Artifact(mlflow_run_id), version, mlflow_run_id))

\* the answer of the model server to a request
Reply(op, name, code, body) == [op |-> op, name |-> name, code |-> code, body |-> body]
NoReply == Reply("none", "", 0, {})

\* the arguments of a load call
LoadCall(mlflow_run_id, version) == [mlflow_run_id |-> mlflow_run_id, version |-> version]

\* Redis PUBLISH: the message goes to the connections subscribed to the
\* channel at this moment, and to nobody else
Published(subs, id, payload) ==
    [c \in DOMAIN subs |->
        IF subs[c].channel = id THEN [subs[c] EXCEPT !.buffer = Append(@, payload)]
        ELSE subs[c]]

(* ------------------------- exception routing --------------------------- *)
PhaseOps == {"publish", "persist"}

\* _phase(name, status, logs): append the entry, then publish, rpush, persist
CallPhase(t, name, status, logs) ==
    [t EXCEPT !.phases = Append(@, Entry(name, status, logs)),
              !.cur = Entry(name, status, logs),
              !.pc = "publish"]

\* _publish_phase(name, status, logs) called directly (no entry, no persist)
CallPublish(t, name, status, logs) ==
    [t EXCEPT !.cur = Entry(name, status, logs), !.pc = "publish"]

\* the statement being executed lies in the try block of the deploy phase
InDeployTry(t) ==
    \/ t.pc \in {"load", "dep_read", "dep_commit"}
    \/ t.pc \in PhaseOps /\ t.cur.name = "deploy" /\ t.cur.status = "success"

\* the statement being executed lies in one of the two except blocks
InHandler(t) ==
    \/ t.pc \in {"exc_db", "sysexit"}
    \/ t.pc \in PhaseOps /\ t.cur.name \in {"error", "shutdown"}

\* run_pipeline is left, by return or by an exception that escaped it; the
\* frame is kept as it was at that moment
Return(t, result) ==
    [t EXCEPT !.pc = "done", !.result = result, !.notebook = <<>>, !.prev = {}]

\* an exception `msg` raised by the statement at t.pc
Raise(t, msg) ==
    IF InHandler(t) THEN Return([t EXCEPT !.exc = msg], "raised")
    ELSE IF InDeployTry(t) THEN CallPhase(t, "deploy", "failed", msg)
    ELSE CallPhase([t EXCEPT !.exc = msg], "error", "failed", msg)

\* where run_pipeline continues after _phase / _publish_phase returns
AfterPhase(t) ==
    LET e == <<t.cur.name, t.cur.status>> IN
    CASE e = <<"download", "running">>  -> [t EXCEPT !.pc = "download"]
      [] e = <<"download", "success">>  -> [t EXCEPT !.pc = "chk_validate"]
      [] e = <<"validate", "running">>  -> [t EXCEPT !.pc = "validate"]
      [] e = <<"validate", "success">>  -> [t EXCEPT !.pc = "chk_execute"]
      [] e = <<"execute", "running">>   -> [t EXCEPT !.pc = "execute"]
      [] e = <<"execute", "success">>   -> [t EXCEPT !.pc = "chk_register"]
      [] e = <<"register", "running">>  -> [t EXCEPT !.pc = "register"]
      [] e = <<"register", "success">>  -> [t EXCEPT !.pc = "decide"]
      [] e = <<"deploy", "running">>    -> [t EXCEPT !.pc = "load"]
      [] e = <<"deploy", "success">>    -> [t EXCEPT !.pc = "finish"]
      [] e = <<"deploy", "failed">>     -> [t EXCEPT !.pc = "finish"]
      [] e = <<"error", "failed">>      -> [t EXCEPT !.pc = "exc_db"]
      [] e = <<"complete", "success">>  -> Return(t, "success")
      [] e = <<"shutdown", "failed">>   -> Return(t, "worker_shutdown")

Direct(t) == t.cur.name \in {"complete", "shutdown"}

(* ------------------------------ run_pipeline --------------------------- *)
SetTask(id, t) == task' = [task EXCEPT ![id] = t]

\* lines 193-200: mark the run running, then _phase("download", "running")
MarkRunning(id) ==
    LET t == task[id] IN
    /\ t.pc = "start"
    /\ \E o \in Outcomes({"db_error"}) :
        /\ fault_count' = Charge(o)
        /\ IF o = "ok"
           THEN /\ pipelines' = _update_pipeline_db(pipelines, id, Some("running"),
                                                    None, None, TRUE, FALSE)
                /\ SetTask(id, CallPhase(t, "download", "running", <<>>))
           ELSE /\ SetTask(id, Raise(t, <<o>>))
                /\ UNCHANGED pipelines
    /\ UNCHANGED <<settings, limits, revoked, serverObs, parserVars, routerVars,
                   model_deployments, channel, phases_list, _models, _shutting_down,
                   deliveries>>

\* _publish_phase, lines 88-99: r.publish on the pipeline's channel, r.rpush
\* on the durable list, r.expire; each of the three calls can raise, and what
\* the earlier ones did stays done. _phase goes on to persist, a direct
\* caller gets control back
_publish_phase(id) ==
    LET t == task[id]
        payload == Event(t.cur.name, t.cur.status, t.cur.logs)
    IN
    /\ t.pc = "publish"
    /\ \E o \in Outcomes({"publish_error", "rpush_error", "expire_error"}) :
        /\ fault_count' = Charge(o)
        /\ channel' = IF o = "publish_error" THEN channel
                      ELSE [channel EXCEPT ![id] = Append(@, payload)]
        /\ subscriptions' = IF o = "publish_error" THEN subscriptions
                            ELSE Published(subscriptions, id, payload)
        /\ phases_list' = IF o \in {"publish_error", "rpush_error"} THEN phases_list
                          ELSE [phases_list EXCEPT ![id] = Append(@, payload)]
        /\ SetTask(id, IF o # "ok" THEN Raise(t, <<"redis_error">>)
                       ELSE IF Direct(t) THEN AfterPhase(t)
                       ELSE [t EXCEPT !.pc = "persist"])
    /\ UNCHANGED <<settings, limits, revoked, serverObs, parserVars, gatewayVars,
                   apiVars, ws, clients, pipelines, model_deployments, _models,
                   _shutting_down, deliveries>>

\* _phase line 189: _update_pipeline_db(pipeline_id, phases=phases)
PhasePersist(id) ==
    LET t == task[id] IN
    /\ t.pc = "persist"
    /\ \E o \in Outcomes({"db_error"}) :
        /\ fault_count' = Charge(o)
        /\ IF o = "ok"
           THEN /\ pipelines' = _update_pipeline_db(pipelines, id, None,
                                                    Some(t.phases), None, FALSE, FALSE)
                /\ SetTask(id, AfterPhase(t))
           ELSE /\ SetTask(id, Raise(t, <<o>>))
                /\ UNCHANGED pipelines
    /\ UNCHANGED <<settings, limits, revoked, serverObs, parserVars, routerVars,
                   model_deployments, channel, phases_list, _models, _shutting_down,
                   deliveries>>

\* lines 203-233: look the repository up, fetch and decode the notebook
Download(id) ==
    LET t == task[id] IN
    /\ t.pc = "download"
    /\ \E o \in Outcomes({"Cannot parse GitHub URL", "http_error"}) :
        /\ fault_count' = Charge(o)
        /\ IF o = "ok"
           THEN \E nb \in Notebooks(id) :
                  SetTask(id, CallPhase([t EXCEPT !.notebook = nb],
                                        "download", "success", <<>>))
           ELSE SetTask(id, Raise(t, <<o>>))
    /\ UNCHANGED <<settings, limits, revoked, serverObs, parserVars, routerVars,
                   pipelines, model_deployments, channel, phases_list, _models,
                   _shutting_down, deliveries>>

\* a wrong phase order: validation is passed over
NextPhase_SkipValidate(pc) ==
    CASE pc = "chk_validate" -> "execute"
      [] pc = "chk_execute"  -> "execute"
      [] pc = "chk_register" -> "register"

\* the phase that starts after each shutdown check (lines 240, 253, 299)
NextPhase(pc) ==
    CASE pc = "chk_validate" -> "validate"
      [] pc = "chk_execute"  -> "execute"
      [] pc = "chk_register" -> "register"

\* lines 236, 249, 295: the shutdown check between two phases, then the
\* _phase(next, "running") that follows it
CheckShutdown(id) ==
    LET t == task[id] IN
    /\ t.pc \in {"chk_validate", "chk_execute", "chk_register"}
    /\ SetTask(id, IF _shutting_down THEN [t EXCEPT !.pc = "sysexit"]
                   ELSE CallPhase(t, NextPhase(t.pc), "running", <<>>))
    /\ UNCHANGED <<settings, limits, revoked, serverObs, parserVars, routerVars,
                   pipelines, model_deployments, channel, phases_list, _models,
                   _shutting_down, deliveries, fault_count>>

\* lines 242-246: validate_required_tags, extract_config
Validate(id) ==
    LET t == task[id]
        missing == missing_tags(t.notebook)
        config == extract_config(t.notebook)
    IN
    /\ t.pc = "validate"
    /\ SetTask(id, IF missing # <<>>
                   THEN Raise(t, <<"Notebook is missing required MLOps tags">> \o missing)
                   ELSE CallPhase([t EXCEPT !.model_name = config.model_name,
                                            !.model_version = config.version,
                                            !.notebook = <<>>],
                                  "validate", "success", <<>>))
    /\ UNCHANGED <<settings, limits, revoked, serverObs, parserVars, routerVars,
                   pipelines, model_deployments, channel, phases_list, _models,
                   _shutting_down, deliveries, fault_count>>

\* lines 256-292: run the notebook with papermill and collect the cell logs
Execute(id) ==
    LET t == task[id] IN
    /\ t.pc = "execute"
    /\ \E o \in Outcomes({"papermill_error"}) :
        /\ fault_count' = Charge(o)
        /\ SetTask(id, IF o = "ok" THEN CallPhase(t, "execute", "success", <<"cell_logs">>)
                       ELSE Raise(t, <<o>>))
    /\ UNCHANGED <<settings, limits, revoked, serverObs, parserVars, routerVars,
                   pipelines, model_deployments, channel, phases_list, _models,
                   _shutting_down, deliveries>>

\* what client.get_run(...).data.metrics can hold after the notebook ran
ReadBack == {[EmptyMetrics EXCEPT !.accuracy = Some(a)] : a \in Accuracies}

\* a register phase whose metrics read is not wrapped in a try
Register_ReadRaises(id) ==
    LET t == task[id] IN
    /\ t.pc = "register"
    /\ \E o \in Outcomes({"tracker_error", "metrics_read_error"}), m \in ReadBack :
        /\ fault_count' = Charge(o)
        /\ SetTask(id, IF o # "ok" THEN Raise(t, <<o>>)
                       ELSE CallPhase([t EXCEPT !.metrics = m,
                                                !.accuracy = Get(m.accuracy, 0),
                                                !.mlflow_run_id =
                                                    RunRef("mlflow", id, deliveries[id])],
                                      "register", "success", <<>>))
    /\ UNCHANGED <<settings, limits, revoked, serverObs, parserVars, routerVars,
                   pipelines, model_deployments, channel, phases_list, _models,
                   _shutting_down, deliveries>>

\* lines 299-328: open the tracking run, tag it, upload the artifact, read
\* the metrics back (an empty map when the read fails)
Register(id) ==
    LET t == task[id] IN
    /\ t.pc = "register"
    /\ \E o \in Outcomes({"tracker_error", "metrics_read_error"}), m \in ReadBack :
        LET metrics == IF o = "metrics_read_error" THEN EmptyMetrics ELSE m IN
        /\ fault_count' = Charge(o)
        /\ SetTask(id, IF o = "tracker_error" THEN Raise(t, <<o>>)
                       ELSE CallPhase([t EXCEPT !.metrics = metrics,
                                                !.accuracy = Get(metrics.accuracy, 0),
                                                !.mlflow_run_id =
                                                    RunRef("mlflow", id, deliveries[id])],
                                      "register", "success", <<>>))
    /\ UNCHANGED <<settings, limits, revoked, serverObs, parserVars, routerVars,
                   pipelines, model_deployments, channel, phases_list, _models,
                   _shutting_down, deliveries>>

\* the condition of line 337
ShouldDeploy(t) ==
    settings.auto_deploy_on_success /\ t.accuracy >= settings.min_accuracy_threshold

\* lines 336-341 and 390-392: deploy, or skip the phase
Decide(id) ==
    LET t == [task[id] EXCEPT !.deployed = FALSE] IN
    /\ t.pc = "decide"
    /\ SetTask(id, IF ShouldDeploy(t) THEN CallPhase(t, "deploy", "running", <<>>)
                   ELSE [t EXCEPT !.pc = "finish"])
    /\ UNCHANGED <<settings, limits, revoked, serverObs, parserVars, routerVars,
                   pipelines, model_deployments, channel, phases_list, _models,
                   _shutting_down, deliveries, fault_count>>

\* a deploy phase that goes on to the deployment records whatever the load
\* call answered
Load_IgnoreAnswer(id) ==
    LET t == task[id] IN
    /\ t.pc = "load"
    /\ \E o \in Outcomes({"load_failed"}) :
        /\ fault_count' = Charge(o)
        /\ IF o = "load_failed"
           THEN /\ reply' = Reply("load", t.model_name, 500, {})
                /\ UNCHANGED <<_models, last_load, served>>
           ELSE /\ _models' = load_model(_models, t.model_name, t.mlflow_run_id,
                                         t.model_version)
                /\ last_load' = Assigned(last_load, t.model_name,
                                         LoadCall(t.mlflow_run_id, t.model_version))
                /\ served' = Assigned(served, t.model_name, 0)
                /\ reply' = Reply("load", t.model_name, 200, {})
        /\ SetTask(id, [t EXCEPT !.pc = "dep_read", !.deploy_resp = o])
    /\ UNCHANGED <<settings, limits, revoked, parserVars, routerVars, pipelines,
                   model_deployments, channel, phases_list, _shutting_down,
                   deliveries>>

\* lines 345-353: POST /internal/load/{model_name}; the server answers 500
\* ("load_failed", registry untouched) or the answer does not arrive within
\* the 120 s timeout although the server completes the load ("load_timeout")
Load(id) ==
    LET t == task[id] IN
    /\ t.pc = "load"
    /\ \E o \in Outcomes({"load_failed", "load_timeout"}) :
        /\ fault_count' = Charge(o)
        /\ IF o = "load_failed"
           THEN /\ reply' = Reply("load", t.model_name, 500, {})
                /\ UNCHANGED <<_models, last_load, served>>
           ELSE /\ _models' = load_model(_models, t.model_name, t.mlflow_run_id,
                                         t.model_version)
                /\ last_load' = Assigned(last_load, t.model_name,
                                         LoadCall(t.mlflow_run_id, t.model_version))
                /\ served' = Assigned(served, t.model_name, 0)
                /\ reply' = Reply("load", t.model_name, 200, {})
        /\ SetTask(id, IF o = "ok" THEN [t EXCEPT !.pc = "dep_read", !.deploy_resp = "ok"]
                       ELSE Raise(t, <<o>>))
    /\ UNCHANGED <<settings, limits, revoked, parserVars, routerVars, pipelines,
                   model_deployments, channel, phases_list, _shutting_down, deliveries>>

\* the ids of the active rows of a model (the SELECT of lines 363-368)
ActiveIds(md, model_name) ==
    {i \in 1..Len(md) : md[i].model_name = model_name /\ md[i].is_active}

\* lines 360-368: open the session and read the active deployments
DeployRead(id) ==
    LET t == task[id] IN
    /\ t.pc = "dep_read"
    /\ \E o \in Outcomes({"db_error"}) :
        /\ fault_count' = Charge(o)
        /\ SetTask(id, IF o = "ok"
                       THEN [t EXCEPT !.pc = "dep_commit",
                                      !.prev = ActiveIds(model_deployments, t.model_name)]
                       ELSE Raise(t, <<o>>))
    /\ UNCHANGED <<settings, limits, revoked, serverObs, parserVars, routerVars,
                   pipelines, model_deployments, channel, phases_list, _models,
                   _shutting_down, deliveries>>

Deployment(model_name, version, accuracy, pipeline_id) ==
    [model_name |-> model_name, version |-> version, accuracy |-> accuracy,
     is_active |-> TRUE, pipeline_id |-> pipeline_id]

\* the rows after the flush: every row read as active is updated by its
\* primary key, the new row is inserted
Promote(md, prev, row) ==
    Append([i \in 1..Len(md) |->
              IF i \in prev THEN [md[i] EXCEPT !.is_active = FALSE] ELSE md[i]],
           row)

\* lines 369-385: deactivate, insert, commit; then deployed = True and
\* _phase("deploy", "success")
DeployCommit(id) ==
    LET t == task[id] IN
    /\ t.pc = "dep_commit"
    /\ \E o \in Outcomes({"db_error"}) :
        /\ fault_count' = Charge(o)
        /\ IF o = "ok"
           THEN /\ model_deployments' =
                     Promote(model_deployments, t.prev,
                             Deployment(t.model_name, t.model_version, t.accuracy, id))
                /\ SetTask(id, CallPhase([t EXCEPT !.deployed = TRUE, !.prev = {}],
                                         "deploy", "success", <<>>))
           ELSE /\ SetTask(id, Raise([t EXCEPT !.prev = {}], <<o>>))
                /\ UNCHANGED model_deployments
    /\ UNCHANGED <<settings, limits, revoked, serverObs, parserVars, routerVars,
                   pipelines, channel, phases_list, _models, _shutting_down,
                   deliveries>>

\* lines 395-403: metrics["deployed"] = deployed, persist status success,
\* then _publish_phase("complete", "success")
Finish(id) ==
    LET t == [task[id] EXCEPT !.metrics.deployed = Some(task[id].deployed)] IN
    /\ t.pc = "finish"
    /\ \E o \in Outcomes({"db_error"}) :
        /\ fault_count' = Charge(o)
        /\ IF o = "ok"
           THEN /\ pipelines' = _update_pipeline_db(pipelines, id, Some("success"),
                                    Some(t.phases), Some(t.metrics), FALSE, TRUE)
                /\ SetTask(id, CallPublish(t, "complete", "success", <<>>))
           ELSE /\ SetTask(id, Raise(t, <<o>>))
                /\ UNCHANGED pipelines
    /\ UNCHANGED <<settings, limits, revoked, serverObs, parserVars, routerVars,
                   model_deployments, channel, phases_list, _models, _shutting_down,
                   deliveries>>

\* lines 421-428: after _phase("error", "failed"), persist status failed and
\* return the failure
ExceptException(id) ==
    LET t == task[id] IN
    /\ t.pc = "exc_db"
    /\ \E o \in Outcomes({"db_error"}) :
        /\ fault_count' = Charge(o)
        /\ IF o = "ok"
           THEN /\ pipelines' = _update_pipeline_db(pipelines, id, Some("failed"),
                                    Some(t.phases), Some(t.metrics), FALSE, TRUE)
                /\ SetTask(id, Return(t, "failed"))
           ELSE /\ SetTask(id, Raise(t, <<o>>))
                /\ UNCHANGED pipelines
    /\ UNCHANGED <<settings, limits, revoked, serverObs, parserVars, routerVars,
                   model_deployments, channel, phases_list, _models, _shutting_down,
                   deliveries>>

\* lines 407-414: persist status failed, then publish the shutdown event
ExceptSystemExit(id) ==
    LET t == task[id] IN
    /\ t.pc = "sysexit"
    /\ \E o \in Outcomes({"db_error"}) :
        /\ fault_count' = Charge(o)
        /\ IF o = "ok"
           THEN /\ pipelines' = _update_pipeline_db(pipelines, id, Some("failed"),
                                    Some(t.phases), None, FALSE, TRUE)
                /\ SetTask(id, CallPublish(t, "shutdown", "failed",
                                           <<"Worker shutting down">>))
           ELSE /\ SetTask(id, Raise(t, <<o>>))
                /\ UNCHANGED pipelines
    /\ UNCHANGED <<settings, limits, revoked, serverObs, parserVars, routerVars,
                   model_deployments, channel, phases_list, _models, _shutting_down,
                   deliveries>>

(* ------------------------------ environment ---------------------------- *)
\* worker_shutting_down is signalled
_on_shutdown ==
    /\ ~_shutting_down
    /\ _shutting_down' = TRUE
    /\ UNCHANGED <<settings, limits, revoked, serverObs, parserVars, routerVars,
                   pipelines, model_deployments, channel, phases_list, _models, task,
                   deliveries, fault_count>>

\* the queue hands the task of pipeline `id` to a worker: the first time, or
\* again when the previous delivery was not acknowledged (acks_late); a
\* worker discards the message of a revoked task
Deliver(id) ==
    /\ id \in DOMAIN enqueued
    /\ task[id].pc \in {"idle", "done"}
    /\ id \notin revoked
    /\ deliveries[id] < limits.deliveries
    /\ deliveries' = [deliveries EXCEPT ![id] = @ + 1]
    /\ SetTask(id, NewTask)
    /\ UNCHANGED <<settings, limits, revoked, serverObs, parserVars, routerVars,
                   pipelines, model_deployments, channel, phases_list, _models,
                   _shutting_down, fault_count>>

\* CeleryPipelineRunner.cancel, core/pipeline.py lines 78-84:
\* control.revoke(run_id, terminate=True, signal="SIGTERM"). The id is
\* revoked; when the task is executing, the pool process that executes it is
\* sent SIGTERM and dies where it stands ("terminated"), or the pool has no
\* process to signal and the task goes on ("ignored")
cancel(id) ==
    LET t == task[id] IN
    /\ id \notin revoked
    /\ revoked' = revoked \cup {id}
    /\ IF t.pc \in {"idle", "done"}
       THEN UNCHANGED task
       ELSE \E o \in {"terminated", "ignored"} :
              SetTask(id, IF o = "ignored" THEN t
                          ELSE [Return(t, "terminated") EXCEPT !.pc = "killed"])
    /\ UNCHANGED <<settings, limits, serverObs, parserVars, routerVars, pipelines,
                   model_deployments, channel, phases_list, _models, _shutting_down,
                   deliveries, fault_count>>

(* ----------------------------- model server ---------------------------- *)
\* The handlers of model-server/server.py are coroutines that never await:
\* the event loop runs each of them from its first statement to its return
\* before it starts another, so a handler is one step.

\* what the model server shares with nobody but the engine's load call
engineVars == <<settings, pipelines, model_deployments, channel, phases_list,
                _shutting_down, task, deliveries, fault_count, limits, revoked>>

\* the tracking runs and versions a load request can name
Runs == {RunRef("mlflow", id, 1) : id \in PipelineIds}
Versions == {"1", "2"}

\* a load that drops the entry of the name before it fetches the artifact
LoadRequest_UnloadFirst(model_name) ==
    \E o \in {"ok", "download_error"} :
        /\ _models' = IF o = "ok"
                      THEN Assigned(_models, model_name,
                                    ModelEntry(Artifact(NoRef), "1", NoRef))
                      ELSE [k \in DOMAIN _models \ {model_name} |-> _models[k]]
        /\ last_load' = Assigned(last_load, model_name, LoadCall(NoRef, "1"))
        /\ served' = Assigned(served, model_name, 0)
        /\ reply' = Reply("load", model_name, IF o = "ok" THEN 200 ELSE 500, {})
        /\ UNCHANGED <<settings, pipelines, model_deployments, channel, phases_list,
                       _shutting_down, task, deliveries, fault_count, limits, revoked,
                       parserVars, routerVars>>

\* POST /internal/load/{model_name}, lines 206-276: download the artifact,
\* deserialise it, assign the new entry; any exception is answered 500
LoadRequest(model_name) ==
    \E run \in Runs, version \in Versions,
       o \in {"ok", "download_error", "deserialize_error"} :
        /\ IF o = "ok"
           THEN /\ _models' = load_model(_models, model_name, run, version)
                /\ last_load' = Assigned(last_load, model_name, LoadCall(run, version))
                /\ served' = Assigned(served, model_name, 0)
                /\ reply' = Reply("load", model_name, 200, {})
           ELSE /\ reply' = Reply("load", model_name, 500, {o})
                /\ UNCHANGED <<_models, last_load, served>>
        /\ UNCHANGED <<engineVars, parserVars, routerVars>>

\* a predict without the membership test: the lookup of a name that is not
\* loaded raises and is answered 500
predict_NoCheck(model_name) ==
    /\ reply' = Reply("predict", model_name,
                      IF model_name \in DOMAIN _models THEN 200 ELSE 500, {})
    /\ UNCHANGED <<_models, last_load, served, settings, pipelines, model_deployments,
                   channel, phases_list, _shutting_down, task, deliveries, fault_count,
                   limits, revoked, parserVars, routerVars>>

\* POST /predict/{model_name}, lines 285-323: 404 when the name is not
\* loaded; otherwise entry.model.predict (which can raise), then
\* entry.request_count += 1, then the conversion of the prediction and the
\* construction of the response (which can raise: a prediction that is no
\* list); any exception is answered 500
predict(model_name) ==
    IF model_name \notin DOMAIN _models
    THEN /\ reply' = Reply("predict", model_name, 404, {})
         /\ UNCHANGED <<_models, last_load, served, engineVars, parserVars, routerVars>>
    ELSE LET entry == _models[model_name] IN
         /\ entry.request_count < MaxRequests
         /\ \E o \in {"ok", "predict_error", "response_error"} :
             /\ _models' = IF o = "predict_error" THEN _models
                           ELSE [_models EXCEPT ![model_name].request_count = @ + 1]
             /\ served' = IF o = "ok" THEN [served EXCEPT ![model_name] = @ + 1]
                          ELSE served
             /\ reply' = IF o = "ok"
                         THEN Reply("predict", model_name, 200, {entry.version})
                         ELSE Reply("predict", model_name, 500, {o})
         /\ UNCHANGED <<last_load, engineVars, parserVars, routerVars>>

\* what list_models reports of one entry
ModelInfo(model_name, entry) ==
    [model_name |-> model_name, version |-> entry.version,
     mlflow_run_id |-> entry.mlflow_run_id, request_count |-> entry.request_count]

\* GET /models, lines 332-343
list_models ==
    /\ reply' = Reply("list", "", 200,
                      {ModelInfo(m, _models[m]) : m \in DOMAIN _models})
    /\ UNCHANGED <<_models, last_load, served, engineVars, parserVars, routerVars>>

\* del d[key] on a dict
Deleted(d, key) == [k \in DOMAIN d \ {key} |-> d[k]]

\* DELETE /models/{model_name}, lines 352-368
delete_model(model_name) ==
    /\ IF model_name \notin DOMAIN _models
       THEN /\ reply' = Reply("unload", model_name, 404, {})
            /\ UNCHANGED <<_models, last_load, served>>
       ELSE /\ _models' = Deleted(_models, model_name)
            /\ last_load' = Deleted(last_load, model_name)
            /\ served' = Deleted(served, model_name)
            /\ reply' = Reply("unload", model_name, 200, {})
    /\ UNCHANGED <<engineVars, parserVars, routerVars>>

(* ---------------------------- notebook parser -------------------------- *)
\* the sequences over S of length 0..n
SeqUpTo(S, n) == UNION {[1..k -> S] : k \in 0..n}

\* the tag lists of the cells handed to validate_required_tags: any set of
\* required tags, a tag that only resembles a required one, an unrelated tag
TagSets ==
    (SUBSET Range(REQUIRED_TAGS)) \cup {{"mlops:configs"}, {"mlops:training", "other"}}

\* the lines of a config cell: an assignment to MODEL_NAME, VERSION or
\* MODEL_VERSION of a quoted literal ("a", "b", "it's", "") or of the number 2
Literals == {<<"a">>, <<"b">>, <<"it", "'", "s">>, <<>>}
Lines ==
    {Assign(lhs, TRUE, text) :
        lhs \in {MODEL_NAME, VERSION, <<"MODEL", "VERSION">>}, text \in Literals}
    \cup {Assign(lhs, FALSE, <<"2">>) :
        lhs \in {MODEL_NAME, VERSION, <<"MODEL", "VERSION">>}}

\* the notebooks handed to the parser
Docs ==
    SeqUpTo({Cell(tags, <<>>) : tags \in TagSets}, MaxCells)
    \cup {<<Cell({"mlops:config"}, source)>> : source \in SeqUpTo(Lines, MaxLines)}
    \cup {<<Cell({"mlops:config"}, s1), Cell({"mlops:config", "mlops:export"}, s2)>> :
            s1 \in SeqUpTo(Lines, 1), s2 \in SeqUpTo(Lines, 1)}

\* validate_required_tags(notebook), lines 49-69: returns, or raises
\* ValueError with the missing tags and the required tags in its message
validate_required_tags ==
    LET missing == missing_tags(nb_input) IN
    /\ nb_result' = [op |-> "validate_required_tags", raised |-> missing # <<>>,
                     missing |-> missing,
                     required |-> IF missing # <<>> THEN REQUIRED_TAGS ELSE <<>>]
    /\ UNCHANGED <<nb_input, engineVars, _models, serverObs, routerVars>>

\* extract_config(notebook), lines 86-109: raises ValueError when no cell
\* carries mlops:config
ExtractConfig ==
    /\ nb_result' =
         IF get_cells_by_tag(nb_input, "mlops:config") = <<>>
         THEN [op |-> "extract_config", raised |-> TRUE]
         ELSE [op |-> "extract_config", raised |-> FALSE,
               config |-> extract_config(nb_input)]
    /\ UNCHANGED <<nb_input, engineVars, _models, serverObs, routerVars>>

(* ---------------------------- trigger gateway --------------------------- *)
\* settings.github_webhook_secret and a secret that is not it
WebhookSecret == "secret"
OtherSecret == "other"

\* hmac.new(secret, payload, sha256).hexdigest(): equal digests come from
\* equal keys and equal payloads
HexDigest(secret, payload) == [key |-> secret, of |-> payload]

\* the header X-Hub-Signature-256: a scheme prefix and a digest
Signature(prefix, digest) == [prefix |-> prefix, digest |-> digest]

\* core/github.py verify_webhook_signature, lines 146-168
verify_webhook_signature(payload, signature, secret) ==
    /\ signature.prefix = "sha256="
    /\ signature = Signature("sha256=", {HexDigest(secret, payload)})

\* models/schemas.py Repository, lines 31-47
Repository(github_url, branch, is_active) ==
    [github_url |-> github_url, branch |-> branch, is_active |-> is_active]

\* str.endswith on a text held as its pieces
endswith(text, suffix) == text # <<>> /\ text[Len(text)] = suffix

\* ref.replace("refs/heads/", "")
Replaced(ref, old) == SelectSeq(ref, LAMBDA piece : piece # old)

\* lines 83-88 and 92-97: the ids of the active repositories whose github_url
\* is `url`, in id order
ActiveRepos(table, url) ==
    SelectSeq([i \in 1..Len(table) |-> i],
              LAMBDA i : table[i].github_url = url /\ table[i].is_active)

\* a changed-file list that counts the removed files as well
modified_files_Removed(commits) ==
    UNION {commits[i].added \cup commits[i].modified \cup commits[i].removed :
            i \in 1..Len(commits)}

\* lines 121-124: the added and the modified files of every commit
modified_files(commits) ==
    UNION {commits[i].added \cup commits[i].modified : i \in 1..Len(commits)}

\* the outcome of one call
Outcome(code, detail) == [code |-> code, detail |-> detail, repo_id |-> 0]

\* a log call whose keyword collides with the logger's own `event` parameter:
\* the TypeError is answered 500
IgnoredEvent_Clash(event_type) == Outcome(500, "TypeError")

\* lines 60-65: the event is logged (keyword event_type) and answered 200
IgnoredEvent(event_type) == Outcome(200, "ignored_event")

\* an id generator that can hand out an id a second time
_new_uuid_Reused(existing) == PipelineIds

\* models/schemas.py _new_uuid: the ids uuid4 can return, none of them taken
_new_uuid(existing) == PipelineIds \ existing

\* github_webhook, lines 49-132: what the checks of the handler decide
webhook_decision(request, table) ==
    LET body == request.body
        branch == Replaced(body.ref, "refs/heads/")
        exact == ActiveRepos(table, body.repo_url)
        repos == IF exact # <<>> THEN exact
                 ELSE ActiveRepos(table, Append(body.repo_url, ".git"))
    IN
    IF ~verify_webhook_signature(body, request.signature, WebhookSecret)
    THEN Outcome(401, "invalid_signature")
    ELSE IF request.event # "push" THEN IgnoredEvent(request.event)
    ELSE IF repos = <<>> THEN Outcome(404, "no_repo")
    ELSE IF branch # table[repos[1]].branch THEN Outcome(200, "branch_mismatch")
    ELSE IF ~\E f \in modified_files(body.commits) : endswith(f, ".ipynb")
    THEN Outcome(200, "no_notebook")
    ELSE [code |-> 202, detail |-> "accepted", repo_id |-> repos[1]]

\* the requests that reach the gateway
Url == <<"github.com/acme/iris">>
Main == <<"main">>
Dev == <<"dev">>
NotebookFile == <<"train", ".ipynb">>
OtherFiles == {<<"README", ".md">>, <<"train", ".ipynb", ".bak">>}
Commit(added, modified, removed) ==
    [added |-> added, modified |-> modified, removed |-> removed]
CommitLists ==
    {<<Commit({NotebookFile}, {}, {})>>, <<Commit({}, {}, {NotebookFile})>>,
     <<Commit(OtherFiles, {}, {})>>,
     <<Commit(OtherFiles, {}, {}), Commit({}, {NotebookFile}, {})>>}
Bodies ==
    [repo_url : {Url, <<"github.com/acme/other">>},
     ref : {<<"refs/heads/", "main">>, <<"refs/tags/", "main">>},
     commits : CommitLists,
     after : {"c1"}]
Requests ==
    UNION {[body : {body},
            signature : {Signature("sha256=", {HexDigest(WebhookSecret, body)}),
                         Signature("sha1=", {HexDigest(WebhookSecret, body)}),
                         Signature("sha256=", {HexDigest(OtherSecret, body)})},
            event : {"push", "ping"}] : body \in Bodies}

\* the repository tables the gateway can find
RepositoryTables ==
    SeqUpTo({Repository(url, branch, is_active) :
                url \in {Url, Append(Url, ".git")}, branch \in {Main, Dev},
                is_active \in BOOLEAN}, MaxRepos)

\* get_pipeline_runner, core/pipeline.py lines 105-113
get_pipeline_runner ==
    IF settings.runner_backend = "kubernetes" THEN "KubernetesPipelineRunner"
    ELSE "CeleryPipelineRunner"

\* runner.run, core/pipeline.py lines 50-69 and 90-96: apply_async sends one
\* message with task_id = pipeline.id, or raises when the broker cannot be
\* reached; the Kubernetes runner raises NotImplementedError
runner_run(runner) ==
    IF runner = "KubernetesPipelineRunner" THEN {"NotImplementedError"}
    ELSE Outcomes({"queue_unreachable"})

\* POST /webhook/github, lines 37-154: the checks, then the new row with a new
\* uuid, committed (lines 135-142), then runner.run (lines 145-146) outside
\* any try: what it raises becomes the answer 500 and the row stays
github_webhook(request) ==
    LET d == webhook_decision(request, repositories) IN
    /\ IF d.code # 202
       THEN /\ api_reply' = Reply("webhook", "", d.code, {d.detail})
            /\ UNCHANGED <<pipelines, enqueued, task, deliveries, channel, phases_list,
                           fault_count>>
       ELSE \E id \in _new_uuid(DOMAIN pipelines), o \in runner_run(get_pipeline_runner) :
            /\ pipelines' = Assigned(pipelines, id, Pipeline(d.repo_id, request.body.after))
            /\ task' = Assigned(task, id, Idle)
            /\ deliveries' = Assigned(deliveries, id, 0)
            /\ channel' = Assigned(channel, id, <<>>)
            /\ phases_list' = Assigned(phases_list, id, <<>>)
            /\ fault_count' = IF o = "NotImplementedError" THEN fault_count ELSE Charge(o)
            /\ IF o = "ok"
               THEN /\ enqueued' = Assigned(enqueued, id,
                                            IF id \in DOMAIN enqueued
                                            THEN enqueued[id] + 1 ELSE 1)
                    /\ api_reply' = Reply("webhook", "", 202, {id})
               ELSE /\ enqueued' = enqueued
                    /\ api_reply' = Reply("webhook", "", 500, {o})
    /\ UNCHANGED <<settings, model_deployments, _models, _shutting_down, limits, revoked,
                   serverObs, parserVars, repositories, rollbacks, streamVars>>

(* ------------------------------ log stream ----------------------------- *)
\* the websocket connections a client can open
Connections == {"ws1"}

\* the frame of ws_pipeline_logs after websocket.accept (lines 123-130);
\* `since` is not in the code: it counts the events published on the channel
\* before the subscription, for the properties
Frame(pipeline_id) ==
    [pc |-> "subscribe", pipeline_id |-> pipeline_id, message |-> None,
     exit |-> "none", since |-> 0]

\* a subscription that starts with the events of the durable list
Subscription_Replay(id) == [channel |-> id, buffer |-> phases_list[id]]

\* pubsub.subscribe(channel), line 133: what Redis holds for the connection
Subscription(id) == [channel |-> id, buffer |-> <<>>]

\* a release that leaves the subscription in place
unsubscribe_Kept(subs, c) == subs

\* pubsub.unsubscribe(channel) and pubsub.close(), lines 149-150
unsubscribe(subs, c) == Deleted(subs, c)

\* the except clauses of lines 144-147 lead to the finally block
Leave(frame, reason) ==
    [frame EXCEPT !.pc = "finally", !.exit = reason, !.message = None]

\* a client opens the websocket for pipeline `id`: lines 123-130
ws_connect(c, id) ==
    /\ c \notin DOMAIN ws
    /\ ws' = Assigned(ws, c, Frame(id))
    /\ clients' = Assigned(clients, c, [connected |-> TRUE, received |-> <<>>])
    /\ UNCHANGED <<engineVars, _models, serverObs, parserVars, gatewayVars, apiVars,
                   subscriptions>>

\* line 133: subscribe, inside the try block; Redis may be unreachable
ws_subscribe(c) ==
    LET f == ws[c] IN
    /\ f.pc = "subscribe"
    /\ \E o \in {"ok", "redis_error"} :
        IF o = "ok"
        THEN /\ subscriptions' = Assigned(subscriptions, c, Subscription(f.pipeline_id))
             /\ ws' = [ws EXCEPT ![c].pc = "get_message",
                                 ![c].since = Len(channel[f.pipeline_id])]
        ELSE /\ ws' = [ws EXCEPT ![c] = Leave(f, "error")]
             /\ UNCHANGED subscriptions
    /\ UNCHANGED <<engineVars, _models, serverObs, parserVars, gatewayVars, apiVars,
                   clients>>

\* lines 135-138: get_message returns the oldest message Redis sent to this
\* connection (with none waiting it returns None and the loop sleeps and
\* polls again, which changes nothing), or raises
ws_get_message(c) ==
    LET f == ws[c] IN
    /\ f.pc = "get_message"
    /\ c \in DOMAIN subscriptions
    /\ \/ /\ subscriptions[c].buffer # <<>>
          /\ subscriptions' = [subscriptions EXCEPT ![c].buffer = Tail(@)]
          /\ ws' = [ws EXCEPT ![c].pc = "send",
                              ![c].message = Some(Head(subscriptions[c].buffer))]
       \/ /\ ws' = [ws EXCEPT ![c] = Leave(f, "error")]
          /\ UNCHANGED subscriptions
    /\ UNCHANGED <<engineVars, _models, serverObs, parserVars, gatewayVars, apiVars,
                   clients>>

\* lines 139-143: send_text raises WebSocketDisconnect when the client is
\* gone; a forwarded event whose phase is complete ends the loop
ws_send(c) ==
    LET f == ws[c]
        data == TheValue(f.message)
    IN
    /\ f.pc = "send"
    /\ IF clients[c].connected
       THEN /\ clients' = [clients EXCEPT ![c].received = Append(@, data)]
            /\ ws' = [ws EXCEPT ![c] = IF data.phase = "complete"
                                       THEN Leave(f, "complete")
                                       ELSE [f EXCEPT !.pc = "get_message",
                                                      !.message = None]]
       ELSE /\ ws' = [ws EXCEPT ![c] = Leave(f, "disconnect")]
            /\ UNCHANGED clients
    /\ UNCHANGED <<engineVars, _models, serverObs, parserVars, gatewayVars, apiVars,
                   subscriptions>>

\* lines 148-151: the finally block
ws_finally(c) ==
    /\ ws[c].pc = "finally"
    /\ subscriptions' = unsubscribe(subscriptions, c)
    /\ ws' = [ws EXCEPT ![c].pc = "closed"]
    /\ UNCHANGED <<engineVars, _models, serverObs, parserVars, gatewayVars, apiVars,
                   clients>>

\* the client goes away
client_disconnect(c) ==
    /\ clients[c].connected
    /\ ws[c].pc # "closed"
    /\ clients' = [clients EXCEPT ![c].connected = FALSE]
    /\ UNCHANGED <<engineVars, _models, serverObs, parserVars, gatewayVars, apiVars,
                   subscriptions, ws>>

(* ------------------------------- rollback ------------------------------ *)
\* the rollback requests a client can have in flight
RollbackIds == {"r1"}

\* the tables earlier deployments left behind: each deployment deactivated
\* the rows that were active for its model and appended its own
RECURSIVE DeployTables(_)
DeployTables(n) ==
    IF n = 0 THEN {<<>>}
    ELSE LET before == DeployTables(n - 1) IN
         before \cup
         UNION {{Promote(md, ActiveIds(md, d.model_name), d) :
                    d \in {Deployment(m, v, 95, "p2") : m \in ModelNames, v \in Versions}} :
                md \in before}

\* lines 117-122: the rows of the model and version (.first() takes one)
Deployments(md, model_name, version) ==
    {i \in 1..Len(md) : md[i].model_name = model_name /\ md[i].version = version}

\* lines 155-161: the rows read as active are set inactive, the target is
\* set active, and the session commits
Rollback(md, prev, target) ==
    [i \in 1..Len(md) |->
        IF i = target THEN [md[i] EXCEPT !.is_active = TRUE]
        ELSE IF i \in prev THEN [md[i] EXCEPT !.is_active = FALSE]
        ELSE md[i]]

\* the handler has returned or raised
Closed(frame) == [frame EXCEPT !.pc = "done"]

\* POST /models/{model_name}/rollback, lines 117-128: look the target up,
\* 404 when there is none
rollback_model(r, model_name, version) ==
    LET found == Deployments(model_deployments, model_name, version)
        frame == [pc |-> "reload", model_name |-> model_name, version |-> version,
                  deployment |-> 0, prev |-> {}]
    IN
    /\ r \notin DOMAIN rollbacks
    /\ IF found = {}
       THEN /\ rollbacks' = Assigned(rollbacks, r, Closed(frame))
            /\ api_reply' = Reply("rollback", model_name, 404, {version})
       ELSE /\ \E i \in found :
                 rollbacks' = Assigned(rollbacks, r, [frame EXCEPT !.deployment = i])
            /\ UNCHANGED api_reply
    /\ UNCHANGED <<engineVars, _models, serverObs, parserVars, gatewayVars, streamVars>>

\* lines 131-146: POST /internal/load/{model_name} with the row's pipeline_id
\* as mlflow_run_id; every failure (no connection, non-2xx) is answered 502
RollbackReload(r) ==
    LET f == rollbacks[r]
        run == RunRef("pipeline", model_deployments[f.deployment].pipeline_id, 0)
    IN
    /\ f.pc = "reload"
    /\ \E o \in {"ok", "load_failed", "unreachable"} :
        /\ IF o = "ok"
           THEN /\ _models' = load_model(_models, f.model_name, run, f.version)
                /\ last_load' = Assigned(last_load, f.model_name,
                                         LoadCall(run, f.version))
                /\ served' = Assigned(served, f.model_name, 0)
                /\ reply' = Reply("load", f.model_name, 200, {})
                /\ rollbacks' = [rollbacks EXCEPT ![r].pc = "read"]
                /\ UNCHANGED api_reply
           ELSE /\ reply' = IF o = "load_failed"
                            THEN Reply("load", f.model_name, 500, {})
                            ELSE reply
                /\ rollbacks' = [rollbacks EXCEPT ![r] = Closed(f)]
                /\ api_reply' = Reply("rollback", f.model_name, 502, {o})
                /\ UNCHANGED <<_models, last_load, served>>
    /\ UNCHANGED <<engineVars, parserVars, gatewayVars, streamVars>>

\* lines 149-154: read the active rows of the model
RollbackRead(r) ==
    LET f == rollbacks[r] IN
    /\ f.pc = "read"
    /\ rollbacks' = [rollbacks EXCEPT ![r].pc = "commit",
                                      ![r].prev = ActiveIds(model_deployments,
                                                            f.model_name)]
    /\ UNCHANGED <<engineVars, _models, serverObs, parserVars, gatewayVars, streamVars,
                   api_reply>>

\* lines 155-170: flip the flags, commit, answer 200
RollbackCommit(r) ==
    LET f == rollbacks[r] IN
    /\ f.pc = "commit"
    /\ model_deployments' = Rollback(model_deployments, f.prev, f.deployment)
    /\ rollbacks' = [rollbacks EXCEPT ![r] = Closed(f)]
    /\ api_reply' = Reply("rollback", f.model_name, 200, {f.version})
    /\ UNCHANGED <<settings, pipelines, channel, phases_list, _shutting_down, task,
                   deliveries, fault_count, limits, revoked, _models, serverObs,
                   parserVars, gatewayVars, streamVars>>

(* ---------------------------- specification ---------------------------- *)
InitFor(ids, lim, backends) ==
    /\ limits = lim
    /\ settings \in [auto_deploy_on_success : BOOLEAN,
                     min_accuracy_threshold : {MinAccuracyThreshold},
                     runner_backend : backends]
    /\ pipelines = [id \in ids |-> NewPipeline]
    /\ model_deployments = <<>>
    /\ channel = [id \in ids |-> <<>>]
    /\ phases_list = [id \in ids |-> <<>>]
    /\ _models = [m \in {} |-> m]
    /\ _shutting_down = FALSE
    /\ task = [id \in ids |-> Idle]
    /\ deliveries = [id \in ids |-> 0]
    /\ fault_count = 0
    /\ revoked = {}
    /\ reply = NoReply
    /\ last_load = [m \in {} |-> m]
    /\ served = [m \in {} |-> m]
    /\ nb_result = [op |-> "none"]
    /\ enqueued = [id \in ids |-> 1]
    /\ api_reply = NoReply
    /\ rollbacks = [r \in {} |-> r]
    /\ subscriptions = [c \in {} |-> c]
    /\ ws = [c \in {} |-> c]
    /\ clients = [c \in {} |-> c]

InitWith(ids, lim) == InitFor(ids, lim, {"celery"})

Init ==
    /\ InitWith({"p1"}, [deliveries |-> MaxDeliveries, faults |-> MaxFaults])
    /\ nb_input = <<>>
    /\ repositories = <<>>

Next ==
    \/ \E id \in DOMAIN pipelines : Deliver(id)
    \/ \E id \in DOMAIN pipelines : MarkRunning(id)
    \/ \E id \in DOMAIN pipelines : _publish_phase(id)
    \/ \E id \in DOMAIN pipelines : PhasePersist(id)
    \/ \E id \in DOMAIN pipelines : Download(id)
    \/ \E id \in DOMAIN pipelines : CheckShutdown(id)
    \/ \E id \in DOMAIN pipelines : Validate(id)
    \/ \E id \in DOMAIN pipelines : Execute(id)
    \/ \E id \in DOMAIN pipelines : Register(id)
    \/ \E id \in DOMAIN pipelines : Decide(id)
    \/ \E id \in DOMAIN pipelines : Load(id)
    \/ \E id \in DOMAIN pipelines : DeployRead(id)
    \/ \E id \in DOMAIN pipelines : DeployCommit(id)
    \/ \E id \in DOMAIN pipelines : Finish(id)
    \/ \E id \in DOMAIN pipelines : ExceptException(id)
    \/ \E id \in DOMAIN pipelines : ExceptSystemExit(id)
    \/ _on_shutdown

Spec == Init /\ [][Next]_vars

\* both pipelines run at once, each task delivered once, no collaborator fails
InitConc ==
    /\ InitWith(PipelineIds, [deliveries |-> 1, faults |-> 0])
    /\ nb_input = <<>>
    /\ repositories = <<>>
SpecConc == InitConc /\ [][Next]_vars


\* one pipeline, its task delivered once, no collaborator fails, and the
\* operator may cancel the run through the runner
InitCancel ==
    /\ InitWith({"p1"}, [deliveries |-> 1, faults |-> 0])
    /\ nb_input = <<>>
    /\ repositories = <<>>

NextCancel ==
    \/ Next
    \/ \E id \in DOMAIN pipelines : cancel(id)

SpecCancel == InitCancel /\ [][NextCancel]_vars

\* the model server alone, serving its clients: no pipeline exists
InitServer ==
    /\ InitWith({}, [deliveries |-> 0, faults |-> 0])
    /\ nb_input = <<>>
    /\ repositories = <<>>

NextServer ==
    \/ \E model_name \in ModelNames : LoadRequest(model_name)
    \/ \E model_name \in ModelNames : predict(model_name)
    \/ \E model_name \in ModelNames : delete_model(model_name)
    \/ list_models

SpecServer == InitServer /\ [][NextServer]_vars

\* the notebook parser alone, called on a notebook
InitParser ==
    /\ InitWith({}, [deliveries |-> 0, faults |-> 0])
    /\ nb_input \in Docs
    /\ repositories = <<>>

NextParser ==
    \/ validate_required_tags
    \/ ExtractConfig

SpecParser == InitParser /\ [][NextParser]_vars

\* the trigger gateway over a table of registered repositories, with the two
\* first statements of the engine: a trigger can arrive while an earlier run
\* is queued or running
InitGateway ==
    /\ InitWith({}, [deliveries |-> 1, faults |-> 0])
    /\ settings.auto_deploy_on_success
    /\ nb_input = <<>>
    /\ repositories \in RepositoryTables

NextGateway ==
    \/ \E request \in Requests : github_webhook(request)
    \/ \E id \in DOMAIN pipelines : Deliver(id)
    \/ \E id \in DOMAIN pipelines : MarkRunning(id)

SpecGateway == InitGateway /\ [][NextGateway]_vars

\* the trigger gateway with either runner backend and a broker that can be
\* unreachable once, and the worker up to the first phase of a run and
\* through its failure handler. A message in the queue is delivered and a
\* started task takes its next step: the worker pool does not stop
InitTrigger ==
    /\ InitFor({}, [deliveries |-> 1, faults |-> MaxFaults], {"celery", "kubernetes"})
    /\ settings.auto_deploy_on_success
    /\ nb_input = <<>>
    /\ repositories \in RepositoryTables

NextTrigger ==
    \/ \E request \in Requests : github_webhook(request)
    \/ \E id \in DOMAIN pipelines : Deliver(id)
    \/ \E id \in DOMAIN pipelines : MarkRunning(id)
    \/ \E id \in DOMAIN pipelines : _publish_phase(id)
    \/ \E id \in DOMAIN pipelines : PhasePersist(id)
    \/ \E id \in DOMAIN pipelines : ExceptException(id)

SpecTrigger ==
    /\ InitTrigger
    /\ [][NextTrigger]_vars
    /\ \A id \in PipelineIds :
        /\ WF_vars(id \in DOMAIN pipelines /\ Deliver(id))
        /\ WF_vars(id \in DOMAIN pipelines /\ MarkRunning(id))
        /\ WF_vars(id \in DOMAIN pipelines /\ _publish_phase(id))
        /\ WF_vars(id \in DOMAIN pipelines /\ PhasePersist(id))
        /\ WF_vars(id \in DOMAIN pipelines /\ ExceptException(id))

\* one run and a client that opens the log stream of it at any moment
InitStream ==
    /\ InitWith({"p1"}, [deliveries |-> 1, faults |-> 0])
    /\ nb_input = <<>>
    /\ repositories = <<>>

NextStream ==
    \/ Next
    \/ \E c \in Connections : \E id \in DOMAIN pipelines : ws_connect(c, id)
    \/ \E c \in DOMAIN ws : ws_subscribe(c)
    \/ \E c \in DOMAIN ws : ws_get_message(c)
    \/ \E c \in DOMAIN ws : ws_send(c)
    \/ \E c \in DOMAIN ws : ws_finally(c)
    \/ \E c \in DOMAIN ws : client_disconnect(c)

SpecStream == InitStream /\ [][NextStream]_vars

\* a rollback requested while a run is under way, over the table that
\* earlier deployments left behind
InitRollback ==
    /\ limits = [deliveries |-> 1, faults |-> 0]
    /\ settings = [auto_deploy_on_success |-> TRUE,
                   min_accuracy_threshold |-> MinAccuracyThreshold,
                   runner_backend |-> "celery"]
    /\ pipelines = [id \in {"p1"} |-> NewPipeline]
    /\ model_deployments \in DeployTables(MaxRows)
    /\ channel = [id \in {"p1"} |-> <<>>]
    /\ phases_list = [id \in {"p1"} |-> <<>>]
    /\ _models = [m \in {} |-> m]
    /\ _shutting_down = FALSE
    /\ task = [id \in {"p1"} |-> Idle]
    /\ deliveries = [id \in {"p1"} |-> 0]
    /\ fault_count = 0
    /\ revoked = {}
    /\ reply = NoReply
    /\ last_load = [m \in {} |-> m]
    /\ served = [m \in {} |-> m]
    /\ nb_input = <<>>
    /\ nb_result = [op |-> "none"]
    /\ repositories = <<>>
    /\ enqueued = [id \in {"p1"} |-> 1]
    /\ api_reply = NoReply
    /\ rollbacks = [r \in {} |-> r]
    /\ subscriptions = [c \in {} |-> c]
    /\ ws = [c \in {} |-> c]
    /\ clients = [c \in {} |-> c]

NextRollback ==
    \/ Next
    \/ \E r \in RollbackIds, model_name \in ModelNames, version \in Versions :
          rollback_model(r, model_name, version)
    \/ \E r \in DOMAIN rollbacks : RollbackReload(r)
    \/ \E r \in DOMAIN rollbacks : RollbackRead(r)
    \/ \E r \in DOMAIN rollbacks : RollbackCommit(r)

SpecRollback == InitRollback /\ [][NextRollback]_vars

(* ======================================================================= *)
(*                               properties                                *)
(* ======================================================================= *)
PhaseOrder == <<"download", "validate", "execute", "register", "deploy">>
PhaseNames == Range(PhaseOrder)
PhaseIndex(name) == CHOOSE k \in 1..Len(PhaseOrder) : PhaseOrder[k] = name

HasEntry(ph, name, status) ==
    \E i \in 1..Len(ph) : ph[i].name = name /\ ph[i].status = status

HasPhase(ph, name) == \E i \in 1..Len(ph) : ph[i].name = name

\* every running entry of a phase comes after a success entry of each
\* earlier phase
PrefixConsistent(ph) ==
    \A i \in 1..Len(ph) :
        (ph[i].status = "running" /\ ph[i].name \in PhaseNames) =>
            \A k \in 1..(PhaseIndex(ph[i].name) - 1) :
                \E j \in 1..(i - 1) :
                    ph[j].name = PhaseOrder[k] /\ ph[j].status = "success"

\* the running entries with no later success or failed entry of their phase
InProgress(ph) ==
    {i \in 1..Len(ph) :
        /\ ph[i].status = "running"
        /\ ~ \E j \in (i + 1)..Len(ph) :
               ph[j].name = ph[i].name /\ ph[j].status \in {"success", "failed"}}

\* C1: in every reachable state the phase list of a run, as the engine holds
\* it and as the store holds it, is prefix-consistent (a phase is running only
\* after every earlier phase succeeded) and has at most one phase in progress.
C1_PrefixConsistent ==
    \A id \in DOMAIN pipelines :
        /\ PrefixConsistent(task[id].phases)
        /\ PrefixConsistent(pipelines[id].phases)
        /\ Cardinality(InProgress(task[id].phases)) <= 1
        /\ Cardinality(InProgress(pipelines[id].phases)) <= 1

\* a run whose stored phase list shows deploy running after four successes
C1_Witness ==
    \E id \in DOMAIN pipelines :
        /\ HasEntry(pipelines[id].phases, "deploy", "running")
        /\ HasEntry(pipelines[id].phases, "register", "success")
        /\ InProgress(pipelines[id].phases) # {}

Finished(id) == task[id].pc = "done"

\* the exceptions the work of download, validate, execute and register raises
PhaseErrors ==
    {"Cannot parse GitHub URL", "http_error",
     "Notebook is missing required MLOps tags", "papermill_error", "tracker_error"}

\* the execution recorded the failure of the work of one of the four phases
PhaseFailed(t) ==
    \E i \in 1..Len(t.phases) :
        t.phases[i].name = "error" /\ t.phases[i].logs[1] \in PhaseErrors

\* C2: a phase failure halts the later phases and sets the run failed: after
\* the failure no phase gets a running entry, nothing is deployed, and when
\* the execution is over the stored status is failed; and a run whose stored
\* status is success has a success entry for every phase that started.
C2_FailureHalts ==
    \A id \in DOMAIN pipelines :
        LET t == task[id]
            p == pipelines[id]
        IN
        /\ \A i \in 1..Len(t.phases) :
             t.phases[i].name = "error" =>
                \A j \in (i + 1)..Len(t.phases) : t.phases[j].status # "running"
        /\ PhaseFailed(t) =>
             ~HasPhase(t.phases, "deploy") /\ t.deploy_resp = "none" /\ ~t.deployed
        /\ (Finished(id) /\ PhaseFailed(t)) => p.status = "failed"
        /\ (Finished(id) /\ p.status = "success") =>
             \A n \in PhaseNames :
                HasEntry(p.phases, n, "running") => HasEntry(p.phases, n, "success")

\* C3: when the work of phase P raises, the stored phase list gains a failed
\* entry named P that carries the message, and the run ends failed; a
\* notebook without mlops:training ends with exactly one failed entry, named
\* validate, and with no register or deploy entry.
C3_FailedEntryNamesPhase ==
    \A id \in DOMAIN pipelines :
        LET t == task[id]
            p == pipelines[id]
        IN
        (Finished(id) /\ t.result = "failed" /\ PhaseFailed(t)) =>
            /\ p.status = "failed"
            /\ \A i \in InProgress(t.phases) :
                 \E j \in 1..Len(p.phases) :
                    /\ p.phases[j].name = t.phases[i].name
                    /\ p.phases[j].status = "failed"
                    /\ p.phases[j].logs = t.exc
            /\ t.exc[1] = "Notebook is missing required MLOps tags" =>
                 /\ {p.phases[j].name : j \in {k \in 1..Len(p.phases) :
                                                 p.phases[k].status = "failed"}}
                       = {"validate"}
                 /\ ~HasPhase(p.phases, "register")
                 /\ ~HasPhase(p.phases, "deploy")

\* the execution took the else branch of line 390: deploy was skipped
Skipped(t) == t.metrics.deployed # None /\ ~HasPhase(t.phases, "deploy")

\* C4: deploy gets a running entry exactly when promotion is enabled and the
\* accuracy reaches the minimum (equality included); when it is skipped, and
\* the store did not fail, the finished run has no deploy entry and no deploy
\* event, wrote no deployment record, has metrics.deployed = false and keeps
\* status success.
C4_DeployIffThreshold ==
    \A id \in DOMAIN pipelines :
        LET t == task[id]
            p == pipelines[id]
        IN
        /\ HasEntry(t.phases, "deploy", "running") => ShouldDeploy(t)
        /\ (t.pc = "finish" /\ ShouldDeploy(t)) => HasEntry(t.phases, "deploy", "running")
        /\ (Finished(id) /\ Skipped(t) /\ t.exc # <<"db_error">>) =>
             /\ p.status = "success"
             /\ p.metrics.deployed = Some(FALSE)
             /\ ~HasPhase(p.phases, "deploy")
             /\ deliveries[id] = 1 =>
                  /\ \A i \in 1..Len(channel[id]) : channel[id][i].phase # "deploy"
                  /\ \A i \in 1..Len(model_deployments) :
                       model_deployments[i].pipeline_id # id

\* the last row of a model in the deployment table (0 when it has none)
LastFor(md, model_name) ==
    LET rows == {i \in 1..Len(md) : md[i].model_name = model_name} IN
    IF rows = {} THEN 0 ELSE CHOOSE i \in rows : \A j \in rows : j <= i

\* C5: a run whose load call succeeded and whose deployment row was written
\* and is still the newest of its model finishes with that row as the only
\* active row of the model, with status success and with the metrics read
\* back plus deployed = true.
C5_PromotionOneActive ==
    \A id \in DOMAIN pipelines :
        LET t == task[id]
            p == pipelines[id]
            last == LastFor(model_deployments, t.model_name)
        IN
        (/\ Finished(id) /\ t.deploy_resp = "ok" /\ t.deployed
         /\ last # 0 /\ model_deployments[last].pipeline_id = id) =>
            /\ ActiveIds(model_deployments, t.model_name) = {last}
            /\ p.status = "success"
            /\ p.metrics = [accuracy |-> Some(t.accuracy), deployed |-> Some(TRUE)]

\* C6: when the deploy phase ends failed, only that phase is marked failed:
\* the finished run has status success, the four earlier phases keep their
\* success entries, and metrics.deployed is false.
C6_DeployFailureContained ==
    \A id \in DOMAIN pipelines :
        LET t == task[id]
            p == pipelines[id]
        IN
        (Finished(id) /\ HasEntry(t.phases, "deploy", "failed")) =>
            /\ p.status = "success"
            /\ p.metrics.deployed = Some(FALSE)
            /\ \A k \in 1..4 : HasEntry(p.phases, PhaseOrder[k], "success")
            /\ \A i \in 1..Len(p.phases) :
                 p.phases[i].status = "failed" => p.phases[i].name = "deploy"

\* C7: whatever the interleaving of the runs, every committed state of the
\* deployment table has at most one active row per model name.
C7_AtMostOneActive ==
    \A m \in ModelNames : Cardinality(ActiveIds(model_deployments, m)) <= 1

\* C8: a pipeline record is immutable once its status is success or failed:
\* no later step, a second delivery of the task included, changes its status,
\* phase list, metrics or timestamps.
C8_TerminalImmutable ==
    [][\A id \in DOMAIN pipelines :
         pipelines[id].status \in {"success", "failed"} =>
            pipelines'[id] = pipelines[id]]_vars

\* C9: every phase event that is on the channel has its entry in the stored
\* phase list of that run: the transition is persisted before it is broadcast.
C9_PersistBeforeBroadcast ==
    \A id \in DOMAIN pipelines :
        \A i \in 1..Len(channel[id]) :
            channel[id][i].phase \in PhaseNames =>
                HasEntry(pipelines[id].phases, channel[id][i].phase,
                         channel[id][i].status)

\* C10: a failure of _publish_phase never fails the owning operation:
\* whatever the outcome of the publish, the run goes on exactly as it does
\* after a publish that succeeded.
C10_PublishFailureHarmless ==
    [][\A id \in DOMAIN pipelines :
         (task[id].pc = "publish" /\ task'[id] # task[id]) =>
            task'[id] = IF Direct(task[id]) THEN AfterPhase(task[id])
                        ELSE [task[id] EXCEPT !.pc = "persist"]]_vars

(* ---------------------- termination, cancellation, retry --------------- *)
Terminal == {"success", "failed"}

\* C11: nothing escapes run_pipeline: whatever fails, an execution that is
\* over returned an outcome (it did not raise) and left the run in a terminal
\* status.
C11_NothingEscapes ==
    \A id \in DOMAIN pipelines :
        Finished(id) =>
            /\ task[id].result # "raised"
            /\ pipelines[id].status \in Terminal

\* the engine stands at a boundary after which a phase starts
AtBoundary(t) ==
    \/ t.pc \in {"start", "chk_validate", "chk_execute", "chk_register"}
    \/ t.pc = "decide" /\ ShouldDeploy(t)

\* C12: the shutdown flag is honoured at every boundary between phases: when
\* it is set and the engine stands before download, validate, execute,
\* register or deploy, the step it takes starts no phase (no entry is added)
\* and enters the interruption handler; and an outcome worker_shutdown comes
\* with the stored status failed.
C12_ShutdownAtEveryBoundary ==
    /\ [][\A id \in DOMAIN pipelines :
            (_shutting_down /\ AtBoundary(task[id]) /\ task'[id] # task[id]) =>
                /\ task'[id].phases = task[id].phases
                /\ task'[id].pc = "sysexit"]_vars
    /\ [](\A id \in DOMAIN pipelines :
            (Finished(id) /\ task[id].result = "worker_shutdown") =>
                pipelines[id].status = "failed")

\* C13: cancel is cooperative: the step that cancels a run leaves the
\* executing frame as it is (the phase in flight is not interrupted), and a
\* cancelled run that was started and is over has a terminal status.
C13_CancelCooperative ==
    /\ [][\A id \in DOMAIN pipelines :
            (id \notin revoked /\ id \in revoked' /\ InProgress(task[id].phases) # {}) =>
                task'[id] = task[id]]_vars
    /\ [](\A id \in DOMAIN pipelines :
            (id \in revoked /\ task[id].pc \in {"done", "killed"}
                /\ task[id].phases # <<>>) =>
                pipelines[id].status \in Terminal)

\* the failures of the notebook source, the tracker and the model server
TransientErrors == {"http_error", "tracker_error", "load_failed", "load_timeout"}

\* C14: a run is executed again only after an execution that failed on a
\* transient infrastructure error: never after a success, a contract failure
\* (missing tags, unparsable repository reference) or an interruption.
C14_RetryOnlyTransient ==
    [][\A id \in DOMAIN pipelines :
         (deliveries[id] >= 1 /\ deliveries'[id] = deliveries[id] + 1) =>
            /\ task[id].result = "failed"
            /\ task[id].exc # <<>>
            /\ task[id].exc[1] \in TransientErrors]_vars

(* ------------------------- model server properties -------------------- *)
\* C17: a predict or an unload of a name that is not loaded is answered 404
\* and leaves the registry as it was: no entry created or removed, no request
\* count changed.
C17_NotFoundLeavesRegistry ==
    [][(reply'.op \in {"predict", "unload"} /\ reply'.name \notin DOMAIN _models) =>
          (reply'.code = 404 /\ _models' = _models)]_vars

\* a predict of a name that is not loaded was answered while another name
\* is loaded and has served a request
C17_Witness ==
    /\ reply.op = "predict" /\ reply.code = 404
    /\ reply.name \notin DOMAIN _models
    /\ \E m \in DOMAIN _models : _models[m].request_count > 0

\* the entry of a name is whole: predictor, version and source run are those
\* of one load call, the latest that succeeded for the name
WholeEntry(m) ==
    /\ m \in DOMAIN last_load
    /\ _models[m].model = Artifact(last_load[m].mlflow_run_id)
    /\ _models[m].mlflow_run_id = last_load[m].mlflow_run_id
    /\ _models[m].version = last_load[m].version

\* C18: whatever the interleaving of load, unload, predict and list calls,
\* every entry a reader finds in the registry is whole (its predictor,
\* version and source run come from the same load call), and a load that
\* succeeds replaces the entry of its name in one step and leaves the entries
\* of the other names unchanged.
C18_EntriesWhole ==
    /\ [](\A m \in DOMAIN _models : WholeEntry(m))
    /\ [][(reply'.op = "load" /\ reply'.code = 200) =>
            /\ DOMAIN _models' = DOMAIN _models \cup {reply'.name}
            /\ _models'[reply'.name].request_count = 0
            /\ \A m \in DOMAIN _models \ {reply'.name} : _models'[m] = _models[m]]_vars

\* a load replaced the entry of a name by one of another run and version
\* while the other name stays loaded with a request served
C18_Witness ==
    /\ reply.op = "load" /\ reply.code = 200
    /\ reply.name = "m1" /\ "m1" \in DOMAIN _models /\ "m2" \in DOMAIN _models
    /\ _models["m1"].version = "2" /\ _models["m1"].mlflow_run_id.id = "p2"
    /\ _models["m2"].version = "1" /\ _models["m2"].request_count > 0

\* C19: a load that fails is answered with an error and leaves the registry
\* unchanged: an entry loaded before under the name keeps its version, source
\* run and request count, and no entry is created.
C19_FailedLoadLeavesRegistry ==
    [][(reply'.op = "load" /\ reply' # reply /\ reply'.code # 200) =>
          (reply'.code = 500 /\ _models' = _models)]_vars

\* a load of a name failed while the name is loaded and has served a request
C19_Witness ==
    /\ reply.op = "load" /\ reply.code = 500
    /\ reply.name \in DOMAIN _models
    /\ _models[reply.name].request_count > 0

\* C20: the request count of every entry is the number of predicts on its
\* name that succeeded since the entry was loaded.
C20_RequestCountExact ==
    \A m \in DOMAIN _models : _models[m].request_count = served[m]

(* ------------------------ notebook parser properties ------------------- *)
\* the required tags that no cell of the notebook carries
Uncarried(notebook) ==
    {tag \in Range(REQUIRED_TAGS) :
        \A i \in 1..Len(notebook) : tag \notin notebook[i].tags}

\* C15: validate_required_tags returns without error when no required tag
\* is missing from the notebook, and otherwise fails listing as missing
\* exactly the required tags that no cell carries, each once.
C15_MissingTagsExact ==
    nb_result.op = "validate_required_tags" =>
        LET S == Uncarried(nb_input) IN
        /\ nb_result.raised <=> S # {}
        /\ Range(nb_result.missing) = S
        /\ Len(nb_result.missing) = Cardinality(S)

\* a notebook that lacks two required tags, not the first of the list, was
\* rejected
C15_Witness ==
    /\ nb_result.op = "validate_required_tags" /\ nb_result.raised
    /\ nb_result.missing = <<"mlops:preprocessing", "mlops:export">>

\* the literals the source declares for the identifier `key`, in order
Declared(source, key) ==
    SelectSeq(source, LAMBDA line : line.lhs = key /\ line.quoted)

\* the value the contract gives a field: the literal of its declaration, or
\* the default when the config cell does not declare it
Expected(source, key, default) ==
    IF Declared(source, key) = <<>> THEN <<default>>
    ELSE Declared(source, key)[1].text

\* C16: extract_config returns for model_name and for version, each on its
\* own, the literal the first config cell declares for it, and the default
\* (default-model, 1) when the cell does not declare it.
C16_ConfigLiteralOrDefault ==
    (nb_result.op = "extract_config" /\ ~nb_result.raised) =>
        LET source == get_cells_by_tag(nb_input, "mlops:config")[1].source IN
        /\ <<nb_result.config.model_name>> = Expected(source, MODEL_NAME, "default-model")
        /\ <<nb_result.config.version>> = Expected(source, VERSION, "1")

(* ---------------------------- trigger gateway --------------------------- *)
\* the reply of the gateway that accepted a trigger and created run `id`
Accepted(id) == Reply("webhook", "", 202, {id})

\* C21: re-triggering is never deduplicated. Every step that sends a message
\* to the queue creates one run with an id no run had before, in status
\* queued and enqueued once, and leaves every earlier run's record and
\* messages as they were, whatever its status; an accepting answer always
\* comes with such a step; and no run is ever enqueued twice.
C21_NoDedup ==
    /\ [](\A id \in DOMAIN pipelines : id \in DOMAIN enqueued /\ enqueued[id] = 1)
    /\ [][/\ enqueued' # enqueued =>
               \E id \in DOMAIN pipelines' \ DOMAIN pipelines :
                   /\ DOMAIN pipelines' = DOMAIN pipelines \cup {id}
                   /\ pipelines'[id].status = "queued"
                   /\ enqueued'[id] = 1
                   /\ api_reply' = Accepted(id)
                   /\ \A old \in DOMAIN pipelines :
                         /\ pipelines'[old] = pipelines[old]
                         /\ enqueued'[old] = enqueued[old]
          /\ (api_reply' # api_reply /\ api_reply'.code = 202) =>
               enqueued' # enqueued]_vars

\* two runs of the same repository and commit, the earlier one running
C21_Witness ==
    /\ DOMAIN pipelines = {"p1", "p2"}
    /\ pipelines["p1"].repo_id = pipelines["p2"].repo_id
    /\ pipelines["p1"].commit_sha = pipelines["p2"].commit_sha
    /\ pipelines["p1"].status = "running"
    /\ pipelines["p2"].status = "queued"
    /\ enqueued["p1"] = 1 /\ enqueued["p2"] = 1
    /\ api_reply = Accepted("p2")

\* the five conditions of a qualifying trigger
Qualifies(request) ==
    LET body == request.body IN
    /\ request.signature = Signature("sha256=", {HexDigest(WebhookSecret, body)})
    /\ request.event = "push"
    /\ \E i \in 1..Len(repositories) :
          /\ repositories[i].is_active
          /\ repositories[i].github_url \in {body.repo_url, body.repo_url \o <<".git">>}
          /\ body.ref = <<"refs/heads/">> \o repositories[i].branch
    /\ \E i \in 1..Len(body.commits) :
          \E f \in body.commits[i].added \cup body.commits[i].modified :
              f[Len(f)] = ".ipynb"

C24_SubscriptionReleased ==
    \A c \in DOMAIN ws : ws[c].pc = "closed" => c \notin DOMAIN subscriptions

\* a consumer that the client's disconnect ended, after it forwarded events
C24_Witness ==
    \E c \in DOMAIN ws :
        /\ ws[c].pc = "closed"
        /\ ws[c].exit = "disconnect"
        /\ clients[c].received # <<>>
        /\ c \notin DOMAIN subscriptions

\* the events published on the channel of the consumer's pipeline since it
\* subscribed
PublishedSince(c) ==
    LET all == channel[ws[c].pipeline_id] IN SubSeq(all, ws[c].since + 1, Len(all))

IsPrefix(a, b) == Len(a) <= Len(b) /\ SubSeq(b, 1, Len(a)) = a

\* C25: the client receives exactly the events published after the
\* subscription, each once and in publication order: what it received is a
\* prefix of them, and while the loop runs nothing is lost (received, in
\* hand and waiting events together are the events published since); an
\* event whose phase is complete is the last one forwarded and ends the loop.
C25_ForwardsSinceSubscription ==
    \A c \in DOMAIN ws :
        LET f == ws[c]
            got == clients[c].received
            inhand == IF f.message = None THEN <<>> ELSE <<TheValue(f.message)>>
        IN
        /\ f.pc = "subscribe" => got = <<>>
        /\ IsPrefix(got, PublishedSince(c))
        /\ f.pc \in {"get_message", "send"} =>
              got \o inhand \o subscriptions[c].buffer = PublishedSince(c)
        /\ \A i \in 1..Len(got) :
              got[i].phase = "complete" =>
                  i = Len(got) /\ f.pc \in {"finally", "closed"} /\ f.exit = "complete"

\* a consumer that subscribed after the first events, forwarded the rest and
\* stopped at the complete event
C25_Witness ==
    \E c \in DOMAIN ws :
        /\ ws[c].pc = "closed" /\ ws[c].exit = "complete"
        /\ ws[c].since > 0
        /\ Len(clients[c].received) > 1
        /\ clients[c].received = PublishedSince(c)

(* ------------------------------ durable log ---------------------------- *)
\* what GET /pipelines/{id}/logs returns: the whole Redis list, in order
get_pipeline_logs(id) == phases_list[id]

\* C26: every event published on a pipeline's channel is in the pipeline's
\* durable list as well, in publication order: the list a late joiner reads
\* is the sequence of the events published so far.
C26_DurableLogComplete ==
    \A id \in DOMAIN pipelines : get_pipeline_logs(id) = channel[id]

\* C27: the stored phase list is append-only over the life of the record:
\* every write of the list has the list stored before as a prefix, also when
\* the run is executed again.
C27_StoredPhasesAppendOnly ==
    [][\A id \in DOMAIN pipelines :
          IsPrefix(pipelines[id].phases, pipelines'[id].phases)]_vars

(* --------------------------- tagged sections --------------------------- *)
\* C28: validation accepts a notebook only if its four tagged sections are
\* disjoint: every required tag sits on a cell that carries none of the
\* other required tags.
C28_DisjointSectionsRequired ==
    (nb_result.op = "validate_required_tags" /\ ~nb_result.raised) =>
        \A tag \in Range(REQUIRED_TAGS) :
            \E i \in 1..Len(nb_input) :
                _cell_tags(nb_input[i]) \cap Range(REQUIRED_TAGS) = {tag}

(* --------------------------- non-interference -------------------------- *)
\* C29: runs with distinct pipeline ids do not interfere: a step leaves the
\* record (status, phase list, metrics, timestamps), the channel and the
\* durable list of every run whose frame it does not move as they were, and
\* no step moves the frames of two runs.
C29_RunsDoNotInterfere ==
    [][/\ \A b \in DOMAIN pipelines :
            task'[b] = task[b] =>
                /\ pipelines'[b] = pipelines[b]
                /\ channel'[b] = channel[b]
                /\ phases_list'[b] = phases_list[b]
       /\ \A a, b \in DOMAIN pipelines :
            (task'[a] # task[a] /\ task'[b] # task[b]) => a = b]_vars

\* both runs are under way, each with transitions stored and published
C29_Witness ==
    /\ \A id \in PipelineIds :
          /\ task[id].pc \notin {"idle", "done"}
          /\ pipelines[id].status = "running"
          /\ Len(pipelines[id].phases) >= 2
          /\ Len(channel[id]) >= 2
    /\ pipelines["p1"].phases # pipelines["p2"].phases

(* ------------------------------- rollback ------------------------------ *)
\* the rows of the other models
OtherModels(md, model_name) ==
    [i \in 1..Len(md) |-> IF md[i].model_name = model_name THEN <<>> ELSE <<md[i]>>]

\* C30: rollback(model, version) answers 404 exactly when no deployment of
\* the model and version exists and 502 when the reload fails, both without
\* touching the table; a rollback that answers 200 leaves the target as the
\* only active row of the model and the rows of other models as they were.
C30_RollbackContract ==
    [][/\ \A r \in RollbackIds, m \in ModelNames, v \in Versions :
            rollback_model(r, m, v) =>
                /\ model_deployments' = model_deployments
                /\ (Deployments(model_deployments, m, v) = {})
                      = (api_reply' = Reply("rollback", m, 404, {v}))
       /\ \A r \in DOMAIN rollbacks :
            RollbackReload(r) =>
                /\ model_deployments' = model_deployments
                /\ rollbacks'[r].pc = "done" => api_reply'.code = 502
       /\ \A r \in DOMAIN rollbacks :
            RollbackCommit(r) =>
                /\ api_reply'.code = 200
                /\ ActiveIds(model_deployments', rollbacks[r].model_name)
                      = {rollbacks[r].deployment}
                /\ OtherModels(model_deployments', rollbacks[r].model_name)
                      = OtherModels(model_deployments, rollbacks[r].model_name)]_vars

(* ----------------------------- deploy phase ---------------------------- *)
\* the load call of the execution in progress failed
LoadFailed(t) ==
    /\ t.pc \notin {"idle", "start"}
    /\ HasEntry(t.phases, "deploy", "running")
    /\ t.deploy_resp # "ok"

\* C31: the deployment records are changed only after the load call has
\* returned success: a step that changes the table is the commit of a run
\* whose load call was answered 200, and the step in which a load call fails
\* deactivates no row and inserts none.
C31_RecordsAfterLoadSuccess ==
    [][/\ model_deployments' # model_deployments =>
            \E id \in DOMAIN pipelines :
                /\ task[id].pc = "dep_commit"
                /\ task[id].deploy_resp = "ok"
                /\ task'[id] # task[id]
       /\ \A id \in DOMAIN pipelines :
            (task[id].pc = "load" /\ task'[id].pc # "dep_read"
                /\ task'[id] # task[id]) =>
                model_deployments' = model_deployments]_vars

\* the load call of a second execution failed and the row the first
\* execution committed is still the active one
C31_Witness ==
    /\ LoadFailed(task["p1"])
    /\ HasEntry(task["p1"].phases, "deploy", "failed")
    /\ Len(model_deployments) = 1
    /\ model_deployments[1].is_active

(* ---------------------------- register phase --------------------------- *)
\* the execution in progress opened its tracking run and the metrics read
\* that followed failed
ReadFailed(t) ==
    /\ t.pc \notin {"idle", "start"}
    /\ t.mlflow_run_id # NoRef
    /\ t.metrics.accuracy = None

\* C32: reading the metrics back never raises (no execution carries the read
\* error as its exception or in an entry of its phase list); after a failed
\* read the register phase has its success entry, the accuracy is 0, the
\* deploy phase is skipped, a run that ends success stored the metrics
\* {deployed: false}, and a run that ends otherwise failed for another reason.
C32_ReadBackContained ==
    \A id \in DOMAIN pipelines :
        LET t == task[id] IN
        /\ "metrics_read_error" \notin Range(t.exc)
        /\ \A i \in 1..Len(t.phases) : "metrics_read_error" \notin Range(t.phases[i].logs)
        /\ ReadFailed(t) =>
            /\ HasEntry(t.phases, "register", "success")
            /\ t.accuracy = 0
            /\ ~HasPhase(t.phases, "deploy")
            /\ t.pc = "done" =>
                /\ t.result = "success" \/ t.exc # <<>>
                /\ t.result = "success" =>
                    /\ pipelines[id].status = "success"
                    /\ pipelines[id].metrics =
                           [accuracy |-> None, deployed |-> Some(FALSE)]

\* a run with automatic deployment whose metrics read failed ended success
C32_Witness ==
    /\ settings.auto_deploy_on_success
    /\ ReadFailed(task["p1"])
    /\ task["p1"].pc = "done"
    /\ task["p1"].result = "success"

(* --------------------------- phase list shape -------------------------- *)
Pair(name, status) == <<name, status>>

\* the (name, status) pairs of a phase list, in order
Pairs(ph) == [i \in 1..Len(ph) |-> Pair(ph[i].name, ph[i].status)]

\* the entries of a run in which download, validate, execute and register
\* succeeded
Through ==
    <<Pair("download", "running"), Pair("download", "success"),
      Pair("validate", "running"), Pair("validate", "success"),
      Pair("execute", "running"), Pair("execute", "success"),
      Pair("register", "running"), Pair("register", "success")>>

DeployTails ==
    {<<Pair("deploy", "running")>>,
     <<Pair("deploy", "running"), Pair("deploy", "success")>>,
     <<Pair("deploy", "running"), Pair("deploy", "failed")>>}

WellShaped(ph) ==
    \E base \in {SubSeq(Through, 1, n) : n \in 0..Len(Through)}
                    \cup {Through \o tail : tail \in DeployTails},
       end \in {<<>>, <<Pair("error", "failed")>>} :
        Pairs(ph) = base \o end

\* C33: during the first execution of a run the stored phase list is a prefix
\* of the fixed sequence (with the optional deploy entries), optionally ended
\* by one error/failed entry; no (name, status) pair occurs twice, and a
\* success or failed entry of a phase follows the running entry of that phase.
C33_StoredListShape ==
    \A id \in DOMAIN pipelines :
        LET ph == pipelines[id].phases IN
        deliveries[id] <= 1 =>
            /\ WellShaped(ph)
            /\ \A i, j \in 1..Len(ph) : Pairs(ph)[i] = Pairs(ph)[j] => i = j
            /\ \A i \in 1..Len(ph) :
                (ph[i].name \in PhaseNames /\ ph[i].status \in {"success", "failed"}) =>
                    \E j \in 1..(i - 1) :
                        ph[j].name = ph[i].name /\ ph[j].status = "running"

(* ---------------------------- complete event --------------------------- *)
\* C34: during the first execution of a run the complete event is on the
\* channel only while the stored status is success, at most once and as the
\* last event; a run that returned anything but success published no
\* complete event and its last event is error/failed or shutdown/failed.
C34_CompleteLast ==
    \A id \in DOMAIN pipelines :
        LET ch == channel[id] IN
        deliveries[id] <= 1 =>
            /\ \A i \in 1..Len(ch) : ch[i].phase = "complete" =>
                /\ i = Len(ch)
                /\ pipelines[id].status = "success"
            /\ (task[id].pc = "done" /\ task[id].result # "success") =>
                /\ \A i \in 1..Len(ch) : ch[i].phase # "complete"
                /\ Len(ch) > 0
                /\ <<ch[Len(ch)].phase, ch[Len(ch)].status>>
                       \in {<<"error", "failed">>, <<"shutdown", "failed">>}

(* --------------------------- deploy agreement -------------------------- *)
\* the status of the last deploy entry of a phase list is `status`
LastDeployIs(ph, status) ==
    \E i \in 1..Len(ph) :
        /\ ph[i].name = "deploy"
        /\ ph[i].status = status
        /\ \A j \in (i + 1)..Len(ph) : ph[j].name # "deploy"

\* a deployment row owned by run `id` was committed
Owns(id) == \E k \in 1..Len(model_deployments) : model_deployments[k].pipeline_id = id

\* C35: when the first execution of a run has ended success, the stored
\* metrics.deployed is true exactly if the last deploy entry of the stored
\* phase list is success, and exactly if a deployment row owned by the run
\* was committed.
C35_DeployFactsAgree ==
    \A id \in DOMAIN pipelines :
        (deliveries[id] <= 1 /\ task[id].pc = "done" /\ task[id].result = "success") =>
            /\ pipelines[id].metrics.deployed = Some(TRUE)
                   <=> LastDeployIs(pipelines[id].phases, "success")
            /\ pipelines[id].metrics.deployed = Some(TRUE) <=> Owns(id)

(* ----------------------------- serving side ---------------------------- *)
\* the entry the model server holds for the model of `t` was loaded by the
\* execution `t` (its artifact reference is the tracking run of `t`)
LoadedBy(t) ==
    /\ t.model_name \in DOMAIN _models
    /\ _models[t.model_name].mlflow_run_id = t.mlflow_run_id

\* C36: once the deploy phase of an execution has ended failed, the entry
\* the model server holds for that model_name is not one this execution
\* loaded (it is the entry, or the absence, from before the phase); and when
\* a run has returned, the version served for its model is the version of an
\* active deployment row.
C36_FailedDeployLeavesServing ==
    \A id \in DOMAIN pipelines :
        LET t == task[id] IN
        /\ (t.pc \notin {"idle", "start"} /\ LastDeployIs(t.phases, "failed")) =>
                ~LoadedBy(t)
        /\ (t.pc = "done" /\ t.model_name \in DOMAIN _models) =>
                \E k \in ActiveIds(model_deployments, t.model_name) :
                    model_deployments[k].version = _models[t.model_name].version

(* ------------------------------- enqueue ------------------------------- *)
\* C37: every run the gateway creates eventually leaves status queued, and
\* the record and its job come together: no run is in the table without a
\* message sent for it.
C37_QueuedRunsStart ==
    /\ [](\A id \in DOMAIN pipelines : id \in DOMAIN enqueued)
    /\ \A id \in PipelineIds :
        (id \in DOMAIN pipelines) ~>
            (id \in DOMAIN pipelines /\ pipelines[id].status # "queued")

(* ------------------------- rollback reference -------------------------- *)
\* C38: the load call a rollback sends for a deployment row carries the
\* artifact reference the deploy phase that created the row sent: for a row
\* a run of this system committed, the reference of the rollback's load call
\* is the tracking run id of that run.
C38_RollbackSendsDeployReference ==
    [][\A r \in DOMAIN rollbacks :
          (rollbacks[r].pc = "reload" /\ rollbacks'[r].pc = "read") =>
              LET row == model_deployments[rollbacks[r].deployment] IN
              (row.pipeline_id \in DOMAIN task /\ task[row.pipeline_id].deployed) =>
                  last_load'[row.model_name].mlflow_run_id =
                      task[row.pipeline_id].mlflow_run_id]_vars

====
